---- MODULE Spec2Model ----
(***************************************************************************)
(* A model of the pomodoro timer application of src/app.rs: the Timer      *)
(* value type (new / update / start_timer / pause_timer / stop_timer and   *)
(* the three accessors), and the TemplateApp that owns one Timer and is    *)
(* driven by the GUI runtime's frame callback, with its key-value          *)
(* persistence and its repaint policy.                                     *)
(*                                                                         *)
(* Time.  std::time::Instant is a monotonic clock of sub-millisecond       *)
(* resolution.  The model counts it in ticks, TicksPerMilli ticks to the   *)
(* millisecond, and samples it on a bounded grid of instants.              *)
(*                                                                         *)
(* u128.  TLC's integers are 32 bits wide, so a u128 is held as the        *)
(* representative of its residue modulo 2^128 that lies in                 *)
(* -2^127 .. 2^127-1: a value v >= 0 is the u128 v, a value v < 0 is the   *)
(* u128 2^128 + v, which is what a wrapping subtraction below zero leaves. *)
(***************************************************************************)
EXTENDS Integers, Sequences, FiniteSets, TLC

(* ------------------------------ bounds ------------------------------- *)

\* Clock ticks per millisecond (the resolution the model gives Instant).
TicksPerMilli == 2

\* The sampled instants lie at most this many ticks past the first launch or
\* past the first launch plus the timer's full configured duration.
MaxFrac == 2

\* The Increment button is modelled while value stays at or below this.
MaxValue == 4

\* At most this many ticks pass between the two clock reads of one update().
MaxGap == 1

\* Bounds of the inputs of the pure functions (specification SpecPure).
MaxHours == 61
MaxMinutes == 2
MaxSeconds == 3

(* ------------------------- program constants ------------------------- *)

\* TemplateApp::default: pomodoro_timer: Timer::new(2, 23, 17)
DefaultHours == 2
DefaultMinutes == 23
DefaultSeconds == 17

\* TemplateApp::default: value: 2.7 (value is held in tenths)
DefaultValue == 27

\* Slider::new(value, 0.0..=10.0): the slider's upper end, in tenths
SliderMax == 100

\* timer: u128, start_time: u128
U128Bits == 128

DefaultLabel == "Hello World!"
Labels == {DefaultLabel, "work"}

(* ------------------------------- state ------------------------------- *)

VARIABLES
    label,              \* TemplateApp.label
    value,              \* TemplateApp.value, in tenths
    run_mode,           \* TemplateApp.run_mode
    pomodoro_timer,     \* TemplateApp.pomodoro_timer: a Timer record
    shown,              \* the "pomodoro timer h:m:s" label last painted
    repaint_requested,  \* ctx.request_repaint() is pending
    status,             \* the process: "alive", "closed" or "panicked"
    storage,            \* the eframe key-value storage under APP_KEY
    now,                \* the monotonic clock, in ticks
    config,             \* the <<hours, minutes, seconds>> given to Timer::new
    handled,            \* history: the input the last frame handled
    armed               \* history: the start() that last set a resting timer going

vars == <<label, value, run_mode, pomodoro_timer, shown, repaint_requested,
          status, storage, now, config, handled, armed>>

(* --------------------------- u128 and time --------------------------- *)

\* Duration::as_millis of a duration of d ticks: whole milliseconds.
as_millis(d) == d \div TicksPerMilli

\* a - b on u128 goes below zero (a and b as representatives; the model's b
\* are far below 2^127, so a wrapped a never goes below zero again).
sub_overflows(a, b) == a >= 0 /\ b > a

\* a - b modulo 2^128, as a representative.
wrapping_sub(a, b) == a - b

\* 2^k modulo m, three bits at a time (8 * m stays within TLC's integers).
RECURSIVE pow2_mod(_, _)
pow2_mod(k, m) ==
    IF k = 0 THEN 1 % m
    ELSE IF k >= 3 THEN (8 * pow2_mod(k - 3, m)) % m
    ELSE (2 * pow2_mod(k - 1, m)) % m

\* The accessors read only (timer / 1000) modulo 60 * 60 * 60, that is,
\* timer modulo DisplayCycle.
DisplayCycle == 1000 * 60 * 60 * 60

\* 2^128 modulo DisplayCycle.
U128ModCycle == pow2_mod(U128Bits, DisplayCycle)

\* The u128 a representative stands for, modulo DisplayCycle.
u128_residue(v) ==
    IF v >= 0 THEN v
    ELSE (U128ModCycle + (v % DisplayCycle)) % DisplayCycle

(* ------------------------------- Timer ------------------------------- *)

\* Timer::new with the hours converted as if they were minutes.
Timer_new_hours_as_minutes(hours, minutes, seconds, instant) ==
    LET seconds_in_ms == ((hours * 60) + (minutes * 60) + seconds) * 1000
    IN  [is_running |-> FALSE,
         previous_timestamp |-> instant,
         start_time |-> seconds_in_ms,
         timer |-> seconds_in_ms]

Timer_new(hours, minutes, seconds, instant) ==
    LET seconds_in_ms == ((hours * 60 * 60) + (minutes * 60) + seconds) * 1000
    IN  [is_running |-> FALSE,
         previous_timestamp |-> instant,
         start_time |-> seconds_in_ms,
         timer |-> seconds_in_ms]

\* previous_timestamp.elapsed().as_millis(), the clock read at `read`
ms_difference(self, read) == as_millis(read - self.previous_timestamp)

\* update() reaches `self.timer -= ms_difference` with ms_difference > timer
update_overflows(self, read) ==
    self.is_running /\ sub_overflows(self.timer, ms_difference(self, read))

\* update() without its early return for a timer that is not running.
Timer_update_unguarded(self, read, after) ==
    [self EXCEPT !.timer = wrapping_sub(self.timer, ms_difference(self, read)),
                 !.previous_timestamp = after]

\* update(): elapsed() reads the clock at `read`, Instant::now() at `after`.
\* Where update_overflows holds, this is what a build without overflow checks
\* (release) does; a build with them (debug) panics at the subtraction.
Timer_update(self, read, after) ==
    IF ~self.is_running THEN self
    ELSE [self EXCEPT !.timer = wrapping_sub(self.timer, ms_difference(self, read)),
                      !.previous_timestamp = after]

start_timer(self, instant) ==
    [self EXCEPT !.previous_timestamp = instant, !.is_running = TRUE]

pause_timer(self) ==
    [self EXCEPT !.is_running = FALSE]

\* stop_timer() without the reset of timer to start_time.
stop_timer_without_reset(self) ==
    [self EXCEPT !.is_running = FALSE]

stop_timer(self) ==
    [self EXCEPT !.is_running = FALSE, !.timer = self.start_time]

\* get_hours_remaining() without the reduction modulo 60.
get_hours_remaining_unreduced(self) ==
    ((u128_residue(self.timer) \div 1000) \div 60) \div 60

get_hours_remaining(self) == (((u128_residue(self.timer) \div 1000) \div 60) \div 60) % 60

get_minutes_remaining(self) == ((u128_residue(self.timer) \div 1000) \div 60) % 60

get_seconds_remaining(self) == (u128_residue(self.timer) \div 1000) % 60

\* format!("pomodoro timer {}:{}:{}", hours, minutes, seconds)
timer_label(self) ==
    <<get_hours_remaining(self), get_minutes_remaining(self), get_seconds_remaining(self)>>

(* ---------------------------- TemplateApp ---------------------------- *)

\* impl Default for TemplateApp; Timer::new reads Instant::now() at `instant`.
\* (cfg is <<2, 23, 17>> in the source; SpecPure draws it from a bounded set.)
TemplateApp_default(cfg, instant) ==
    [label |-> DefaultLabel,
     value |-> DefaultValue,
     run_mode |-> "Continuous",
     pomodoro_timer |-> Timer_new(cfg[1], cfg[2], cfg[3], instant)]

\* What eframe::set_value stores for the application: the fields serde does
\* not skip, that is, label alone.
serialize(app_label) == <<"ok", app_label>>

\* eframe::get_value(storage, APP_KEY): the stored fields, or <<>> (None)
\* when nothing is stored or what is stored does not parse.
get_value(stored) ==
    IF Len(stored) = 2 /\ stored[1] = "ok" THEN <<stored[2]>> ELSE <<>>

\* TemplateApp::new that never reads the storage.
TemplateApp_new_without_storage(stored, cfg, instant) ==
    TemplateApp_default(cfg, instant)

\* TemplateApp::new: get_value(..).unwrap_or_default(); with #[serde(default)]
\* on the struct every skipped field is taken from TemplateApp::default().
TemplateApp_new(stored, cfg, instant) ==
    LET got == get_value(stored)
        dflt == TemplateApp_default(cfg, instant)
    IN  IF got = <<>> THEN dflt ELSE [dflt EXCEPT !.label = got[1]]

\* The instants the model samples, for a timer of start_ms milliseconds: a
\* few ticks after the first launch (instant 0), and a few ticks after the
\* timer's full duration has passed since.
Instants(start_ms) ==
    { j * start_ms * TicksPerMilli + f : j \in 0..1, f \in 0..MaxFrac }

Grid == Instants(pomodoro_timer.start_time)

Inputs == {"none", "start timer", "pause timer", "stop timer",
           "Increment", "slider", "edit", "Quit"}

\* The instants at which update() may make its second clock read when its
\* first is at `now`: update() returns before either read when not running.
AfterReads(t) ==
    IF t.is_running THEN { n \in Grid : now <= n /\ n <= now + MaxGap } ELSE {now}

\* The timer once the frame's button handlers have run (lines 200-208).
after_buttons(input) ==
    LET t1 == IF input = "start timer" THEN start_timer(pomodoro_timer, now)
              ELSE pomodoro_timer
        t2 == IF input = "pause timer" THEN pause_timer(t1) ELSE t1
    IN  IF input = "stop timer" THEN stop_timer(t2) ELSE t2

\* History: which start() the countdown is measured from.
armed_after(input) ==
    CASE input = "start timer" ->
            IF pomodoro_timer.is_running THEN <<>>
            ELSE <<now, pomodoro_timer.timer>>
      [] input \in {"pause timer", "stop timer"} -> <<>>
      [] OTHER -> armed

\* impl eframe::App for TemplateApp: fn update, one frame, handling `input`
\* (at most one widget is interacted with per frame).
TemplateApp_update(input) ==
    /\ status = "alive"
    /\ repaint_requested \/ input # "none"
    /\ LET t3 == after_buttons(input)
       IN  \/ \* `self.timer -= ms_difference` panics: the frame is abandoned
              \* (a build with overflow checks)
              /\ update_overflows(t3, now)
              /\ status' = "panicked"
              /\ repaint_requested' = FALSE
              /\ handled' = "panic"
              /\ armed' = <<>>
              /\ UNCHANGED <<label, value, run_mode, pomodoro_timer, shown,
                             storage, now>>
           \/ \* the frame runs to its end (on an overflow: a build without
              \* overflow checks, where the subtraction wraps)
              /\ \E after \in AfterReads(t3) :
                    /\ now' = after
                    /\ pomodoro_timer' = Timer_update(t3, now, after)
              /\ label' \in IF input = "edit" THEN Labels \ {label} ELSE {label}
              /\ value' = CASE input = "slider" -> SliderMax
                            [] input = "Increment" -> value + 10
                            [] OTHER -> value
              /\ input = "Increment" => value + 10 <= MaxValue * 10
              /\ input = "slider" => value # SliderMax
              /\ shown' = timer_label(pomodoro_timer')
              /\ repaint_requested' = (run_mode = "Continuous")
              /\ handled' = input
              /\ armed' = armed_after(input)
              /\ IF input = "Quit"
                 THEN \* _frame.close(): eframe saves the state and exits
                      /\ status' = "closed"
                      /\ storage' = serialize(label')
                 ELSE UNCHANGED <<status, storage>>
              /\ UNCHANGED run_mode
    /\ UNCHANGED config

\* eframe::App::save, called by the framework while the application runs.
Save ==
    /\ status = "alive"
    /\ storage' = serialize(label)
    /\ UNCHANGED <<label, value, run_mode, pomodoro_timer, shown,
                   repaint_requested, status, now, config, handled, armed>>

\* The stored state is damaged between runs.
Corrupt ==
    /\ status # "alive"
    /\ storage # <<"garbage">>
    /\ storage' = <<"garbage">>
    /\ UNCHANGED <<label, value, run_mode, pomodoro_timer, shown,
                   repaint_requested, status, now, config, handled, armed>>

\* The process is started again: TemplateApp::new.
Launch ==
    /\ status # "alive"
    /\ LET app == TemplateApp_new(storage, config, now)
       IN  /\ label' = app.label
           /\ value' = app.value
           /\ run_mode' = app.run_mode
           /\ pomodoro_timer' = app.pomodoro_timer
    /\ shown' = <<>>
    /\ repaint_requested' = TRUE
    /\ status' = "alive"
    /\ handled' = "launch"
    /\ armed' = <<>>
    /\ UNCHANGED <<storage, now, config>>

\* Real time passes, to a later instant of `grid`.
TickWithin(grid) ==
    /\ \E n \in grid : n > now /\ now' = n
    /\ UNCHANGED <<label, value, run_mode, pomodoro_timer, shown,
                   repaint_requested, status, storage, config, handled, armed>>

\* TemplateApp::default: Timer::new(2, 23, 17)
Configs == {<<DefaultHours, DefaultMinutes, DefaultSeconds>>}

\* The first launch, with nothing stored.
InitWith(cfgs) ==
    /\ config \in cfgs
    /\ now = 0
    /\ storage = <<>>
    /\ LET app == TemplateApp_new(storage, config, now)
       IN  /\ label = app.label
           /\ value = app.value
           /\ run_mode = app.run_mode
           /\ pomodoro_timer = app.pomodoro_timer
    /\ shown = <<>>
    /\ repaint_requested = TRUE
    /\ status = "alive"
    /\ handled = "launch"
    /\ armed = <<>>

Init == InitWith(Configs)

Tick == TickWithin(Grid)

Next ==
    \/ \E input \in Inputs : TemplateApp_update(input)
    \/ Save
    \/ Corrupt
    \/ Launch
    \/ Tick

Spec == Init /\ [][Next]_vars

(* ------------- the pure functions, over bounded inputs --------------- *)

\* Timer::new and the accessors, for every configuration within the bounds:
\* the timer is constructed, may be started, and is updated and painted
\* within the first few ticks.
PureConfigs ==
    { <<h, m, s>> : h \in 0..MaxHours, m \in 0..MaxMinutes, s \in 0..MaxSeconds }

InitPure == InitWith(PureConfigs)

TickPure == TickWithin({ n \in Grid : n <= MaxFrac })

NextPure ==
    \/ \E input \in {"none", "start timer"} : TemplateApp_update(input)
    \/ TickPure

SpecPure == InitPure /\ [][NextPure]_vars

(* ------------------------------ claims ------------------------------- *)

Max0(x) == IF x < 0 THEN 0 ELSE x

\* The inputs that press none of the three timer buttons.
OtherInputs == Inputs \ {"start timer", "pause timer", "stop timer"}

\* What is left of the countdown at instant `read`, measured exactly from the
\* start() recorded in `armed` = <<instant of the start, timer at the start>>.
ExactlyLeft(read) == Max0(armed[2] - as_millis(read - armed[1]))

\* (hours * 3600 + minutes * 60 + seconds) * 1000 for the configuration
InitialDurationMs == (config[1] * 3600 + config[2] * 60 + config[3]) * 1000

\* C1: whenever update() runs on a running timer with more milliseconds
\* elapsed since the reference instant than remain, it leaves the timer at 0:
\* it neither aborts nor wraps.
C1_UpdateSaturatesAtZero ==
    [][ (\E input \in Inputs :
            /\ TemplateApp_update(input)
            /\ update_overflows(after_buttons(input), now))
        => (status' # "panicked" /\ pomodoro_timer'.timer = 0) ]_vars

\* C2: after pause() on a running timer, the timer is what it was at the
\* start() that set it going, less all the time that has passed since, floored
\* at zero: pause() folds in the time elapsed since the last update().
C2_PauseFoldsElapsedTime ==
    [][ (TemplateApp_update("pause timer") /\ pomodoro_timer.is_running
            /\ armed # <<>>)
        => pomodoro_timer'.timer = ExactlyLeft(now) ]_vars

\* C3: start() on a running timer is a no-op: the frame that handles it leaves
\* the timer as a frame without input would, the time since the previous
\* update() subtracted.
C3_StartWhileRunningIsNoOp ==
    [][ (TemplateApp_update("start timer") /\ pomodoro_timer.is_running
            /\ status' = "alive")
        => pomodoro_timer' = Timer_update(pomodoro_timer, now, now') ]_vars

\* C4: while a timer set going by start() is only updated, each update()
\* leaves the timer at what it was at the start() less exactly the time that
\* has passed since, floored at zero.  (Stated for the updates that do not
\* run the countdown out; C1 is about those that do.)
C4_CountsElapsedTimeExactly ==
    [][ (\E input \in OtherInputs :
            /\ TemplateApp_update(input)
            /\ pomodoro_timer.is_running
            /\ ~update_overflows(pomodoro_timer, now)
            /\ armed # <<>>)
        => pomodoro_timer'.timer = ExactlyLeft(now) ]_vars

\* C5: the frame that handles pause(), and every frame that runs update() on
\* a timer that is not running, leaves the timer, the reference instant and
\* the cleared running flag as they were, whatever time has passed.
C5_NoCountdownWhileNotRunning ==
    [][ \A input \in OtherInputs \cup {"pause timer"} :
            (TemplateApp_update(input)
                /\ (input = "pause timer" \/ ~pomodoro_timer.is_running))
            => /\ pomodoro_timer'.timer = pomodoro_timer.timer
               /\ pomodoro_timer'.previous_timestamp = pomodoro_timer.previous_timestamp
               /\ ~pomodoro_timer'.is_running ]_vars

\* A timer paused after it had counted down, whose last frame ran update()
\* with no input and painted it, with more than a millisecond gone since the
\* reference instant.
C5_Witness ==
    /\ handled = "none"
    /\ ~pomodoro_timer.is_running
    /\ 0 < pomodoro_timer.timer
    /\ pomodoro_timer.timer < pomodoro_timer.start_time
    /\ shown = timer_label(pomodoro_timer)
    /\ now > pomodoro_timer.previous_timestamp + TicksPerMilli

\* C6: once a frame has handled stop() (and run its update()), the timer is
\* back at the configured duration and not running; and the configured
\* duration is at all times the one computed at construction.
C6_StopRestoresInitialDuration ==
    /\ pomodoro_timer.start_time = InitialDurationMs
    /\ handled = "stop timer" =>
            /\ ~pomodoro_timer.is_running
            /\ pomodoro_timer.timer = pomodoro_timer.start_time

\* stop() has been handled on a timer that had been set going after launch,
\* and painted at its full duration.
C6_Witness ==
    /\ handled = "stop timer"
    /\ pomodoro_timer.previous_timestamp > 0
    /\ pomodoro_timer.timer = InitialDurationMs
    /\ shown = <<DefaultHours, DefaultMinutes, DefaultSeconds>>

C8_AccessorsDecompose ==
    LET t == pomodoro_timer.timer
        whole_hours == t \div 3600000
    IN  (shown # <<>> /\ t >= 0) =>
            /\ shown = <<whole_hours % 60, (t \div 60000) % 60, (t \div 1000) % 60>>
            /\ whole_hours < 60 =>
                    shown[1] * 3600 + shown[2] * 60 + shown[3] = t \div 1000
            /\ whole_hours >= 60 =>
                    /\ shown[1] = whole_hours - 60 * (whole_hours \div 60)
                    /\ shown[1] * 3600 + shown[2] * 60 + shown[3] < t \div 1000

\* A timer of more than 60 hours and not a whole number of seconds has been
\* painted: its hours field has wrapped.
C8_Witness ==
    /\ shown # <<>>
    /\ pomodoro_timer.timer > 60 * 3600000
    /\ pomodoro_timer.timer % 1000 # 0
    /\ shown[1] = 0

\* C9 as stated: a launch after the application was closed, with its stored
\* state intact, restores the label and the value as they were when saved.
C9_RestoresLabelAndValue ==
    [][ (Launch /\ status = "closed" /\ get_value(storage) # <<>>)
        => (label' = label /\ value' = value) ]_vars

\* C9, amended: a launch restores the label alone: the stored label when the
\* stored state is present and parses (the label the application had when it
\* closed, if closing saved it), the default label otherwise; value, run
\* mode and timer are the defaults, the timer at rest at its full duration.
C9_RestoresLabelOnly ==
    [][ Launch =>
            /\ label' = IF get_value(storage) # <<>> THEN storage[2] ELSE DefaultLabel
            /\ (status = "closed" /\ get_value(storage) # <<>>) => label' = label
            /\ value' = DefaultValue
            /\ run_mode' = "Continuous"
            /\ ~pomodoro_timer'.is_running
            /\ pomodoro_timer'.timer = InitialDurationMs
            /\ pomodoro_timer'.start_time = InitialDurationMs ]_vars

\* The application has been launched again, after the timer's full duration
\* had passed, from stored state that holds an edited label: the label is
\* back, the value and the timer are the defaults.
C9_Witness ==
    /\ handled = "launch"
    /\ storage = <<"ok", "work">>
    /\ label = "work"
    /\ value = DefaultValue
    /\ pomodoro_timer.timer = InitialDurationMs
    /\ now > MaxFrac

\* C10: in Continuous mode the application, unless the user closed it, is
\* alive with a repaint requested, so that a frame can run without input;
\* and what is painted is the timer as update() left it.
C10_FramesRecurForever ==
    /\ (run_mode = "Continuous" /\ status # "closed") =>
            /\ status = "alive"
            /\ repaint_requested
            /\ ENABLED TemplateApp_update("none")
    /\ (status = "alive" /\ shown # <<>>) => shown = timer_label(pomodoro_timer)

====
